---- MODULE Spec2Model ----
(***************************************************************************)
(* Model of src/app.py (InstaTool Pro): one run of main(), from the        *)
(* authentication check through the per-item download/convert loop to the  *)
(* zip packaging and the failure report.                                   *)
(*                                                                         *)
(* Strings and paths are sequences of one-character strings, so that       *)
(* strip(), split(), re.sub(), Path.stem, os.path.basename() and glob()    *)
(* are computed the way the code computes them.                            *)
(***************************************************************************)
EXTENDS Integers, Sequences, FiniteSets, TLC

\* ------------------------------------------------------------------ bounds
\* Largest number of raw input lines of a batch.
MaxItems == 2
\* Longest raw input line given to the line parser on its own.
MaxLineLen == 9
\* Longest name given to sanitize_filename on its own.
MaxNameLen == 3

\* --------------------------------------------------------- string helpers
\* Python's None, kept apart from every string (no string has this element).
None == <<"<None>">>

\* None where a list of strings may stand.
NoList == <<None>>

\* The whitespace str.strip() removes (the part of it the alphabets hold).
Whitespace == {" ", "\t"}

RECURSIVE LStrip(_)
LStrip(s) == IF s # <<>> /\ Head(s) \in Whitespace THEN LStrip(Tail(s)) ELSE s

RECURSIVE RStrip(_)
RStrip(s) ==
  IF s # <<>> /\ s[Len(s)] \in Whitespace THEN RStrip(SubSeq(s, 1, Len(s) - 1)) ELSE s

\* str.strip()
Strip(s) == RStrip(LStrip(s))

\* The positions at which sub occurs in s.
Occurrences(s, sub) ==
  {k \in 1..(Len(s) - Len(sub) + 1) : SubSeq(s, k, k + Len(sub) - 1) = sub}

\* `sub in s`
Contains(s, sub) == Occurrences(s, sub) # {}

\* s.find(sub), 1-based; only used where sub occurs.
Find(s, sub) == CHOOSE k \in Occurrences(s, sub) : \A j \in Occurrences(s, sub) : k <= j

\* s.rfind(c) for a character c, 1-based, 0 when c does not occur.
RFind(s, c) ==
  IF \E k \in 1..Len(s) : s[k] = c
  THEN CHOOSE k \in 1..Len(s) : s[k] = c /\ \A j \in (k + 1)..Len(s) : s[j] # c
  ELSE 0

\* s.split(sep, 1)
Split1(s, sep) ==
  IF Contains(s, sep)
  THEN LET k == Find(s, sep)
       IN <<SubSeq(s, 1, k - 1), SubSeq(s, k + Len(sep), Len(s))>>
  ELSE <<s>>

\* All strings over alphabet A of length at most n.
StringsUpTo(A, n) == UNION {[1..k -> A] : k \in 0..n}

\* ------------------------------------------------- sanitize_filename (l.33)
\* The character class of the regular expression [\\/*?:"<>|].
IllegalChars == {"\\", "/", "*", "?", ":", "\"", "<", ">", "|"}

\* re.sub(r'[\\/*?:"<>|]', "", name)
RemoveIllegal(name) == SelectSeq(name, LAMBDA c : c \notin IllegalChars)

\* A slip: strip first, then remove the illegal characters.
sanitize_filename_StripFirst(name) == RemoveIllegal(Strip(name))

sanitize_filename(name) == Strip(RemoveIllegal(name))

\* ------------------------------------------------------ the input parser
\* The separator of `Link - Custom Filename`.
Separator == <<" ", "-", " ">>

\* A slip: the comprehension keeps blank lines.
ParseLines_KeepBlank(raw) == [k \in 1..Len(raw) |-> Strip(raw[k])]

\* lines = [line.strip() for line in raw_input.splitlines() if line.strip()]
\* (raw is raw_input.splitlines(), the sequence of raw lines)
ParseLines(raw) ==
  SelectSeq([k \in 1..Len(raw) |-> Strip(raw[k])], LAMBDA l : l # <<>>)

\* A slip: split at the last occurrence (rsplit) instead of the first.
ParseItem_LastSep(line) ==
  IF Contains(line, Separator)
  THEN LET k == CHOOSE k \in Occurrences(line, Separator) :
                  \A j \in Occurrences(line, Separator) : j <= k
       IN [url |-> Strip(SubSeq(line, 1, k - 1)),
           custom_name |-> Strip(SubSeq(line, k + Len(Separator), Len(line)))]
  ELSE [url |-> line, custom_name |-> None]

\* The head of the loop body: url and custom_name of one line.
ParseItem(line) ==
  IF Contains(line, Separator)
  THEN LET parts == Split1(line, Separator)
       IN [url |-> Strip(parts[1]), custom_name |-> Strip(parts[2])]
  ELSE [url |-> line, custom_name |-> None]

\* ------------------------------------------------------------------ paths
\* os.path.basename / Path.name: the text after the last "/".
Basename(p) == SubSeq(p, RFind(p, "/") + 1, Len(p))

\* Path.parent: the text before the last "/".
Parent(p) == SubSeq(p, 1, RFind(p, "/") - 1)

\* Path.stem: the name without its last suffix; a name whose only dot is its
\* first or last character has no suffix.
Stem(p) ==
  LET name == Basename(p)
      k == RFind(name, ".")
  IN IF 1 < k /\ k < Len(name) THEN SubSeq(name, 1, k - 1) ELSE name

\* Path(a) / b
JoinPath(dir, name) == dir \o <<"/">> \o name

\* -------------------------------------------------------------- the inputs
\* get_cookie_file_from_text refuses a text shorter than this (l.28).
CookieMinLen == 50

\* The lengths of the pasted cookie text that are tried.
CookieLens == {0, CookieMinLen - 1, CookieMinLen}

\* The temporary file get_cookie_file_from_text writes.
CookieFile == <<"/", "c">>

\* The directory tempfile.mkdtemp() returns (l.139).
BatchDir == <<"/", "t">>

\* The suffixes of the file names the code builds (l.46, l.48).
Mp4 == <<".", "m", "p", "4">>
MacSuffix == <<"_", "m", "a", "c">>
\* The suffix of a download that was merged into another container.
Mkv == <<".", "m", "k", "v">>

\* The raw lines a batch is made of: "hx" and "hy" are two reels, with ids x, y.
RawLinePool ==
  { <<"h", "x">>,                                  \* a link
    <<"h", "y">>,                                  \* another link
    <<"h", "x">> \o Separator \o <<"y">>,          \* named like the other reel's id
    <<"h", "y">> \o Separator \o <<"n", "?">>,     \* a name with an illegal character
    <<"h", "x">> \o Separator \o <<"x">>,          \* named like its own id
    <<"h", "x">> \o Separator \o <<"n">>,          \* a plain name
    <<" ">>,                                       \* a blank line
    <<"h", "x">> \o Separator }                    \* a link with an empty name

\* raw_input.splitlines() of the texts that are tried.
RawInputs == StringsUpTo(RawLinePool, MaxItems)

\* The alphabet of the lines the parser is tried on, on its own.
ParseAlphabet == {"h", " ", "-"}

\* The alphabet of the names sanitize_filename is tried on, on its own.
SanAlphabet == IllegalChars \cup {" ", "\t", "n"}

\* ------------------------------------------------------------------ state
VARIABLES
  pc,            \* where main() is
  cookie_len,    \* len(cookie_content)
  raw_input,     \* raw_input.splitlines()
  lines,         \* the non-blank, stripped lines
  i,             \* the loop index: the number of items handled
  url,           \* locals of the loop body
  custom_name,
  filename,      \* download_single_video's local: the retrieved file
  f_path,        \* what download_single_video returned
  valid_files,
  failed_lines,
  files,         \* the paths that exist in the scratch directory
  empty_files,   \* those of them of size 0
  batch_dir,     \* the scratch directory, None before mkdtemp
  zip_file,      \* the entry names of reels_download.zip, NoList before it is opened
  exc,           \* the exception that left main(), "none" if none
  ui,            \* the messages shown, in order
  progress,      \* the numerators given to the progress bar, in order
  failed_shown,  \* the failed links the report step listed, NoList before it
  calls,         \* the item numbers download_single_video was called for
  outcome_of,    \* per handled item, "success" or "failure"
  retr,          \* how the retrieval of the current item ended
  tstat,         \* how the transcode of the current item ended
  arg,           \* the name given to sanitize_filename on its own
  res,           \* the results of applying it once and twice
  written,       \* per item begun, the paths its pipeline wrote in the scratch directory
  run_valid,     \* per session, the valid_files its loop ended with
  run_pc,        \* per session, where it is in l.166-184
  run_pos,       \* per session, the entries its open ZipFile has written
  zip_path_file, \* the entries of the file at zip_path, NoList: no such file
  run_data       \* per session, the entries handed to st.download_button

vars ==
  <<pc, cookie_len, raw_input, lines, i, url, custom_name, filename, f_path,
    valid_files, failed_lines, files, empty_files, batch_dir, zip_file, exc, ui,
    progress, failed_shown, calls, outcome_of, retr, tstat, arg, res, written,
    run_valid, run_pc, run_pos, zip_path_file, run_data>>

\* The sessions of the app, each running main() in a thread of its own.
Sessions == {1, 2}

\* The variables of the sessions' packaging.
sessvars == <<run_valid, run_pc, run_pos, zip_path_file, run_data>>

\* No session is packaging.
SessionsIdle ==
  /\ run_valid = [r \in Sessions |-> <<>>]
  /\ run_pc = [r \in Sessions |-> "idle"]
  /\ run_pos = [r \in Sessions |-> 0]
  /\ zip_path_file = NoList
  /\ run_data = [r \in Sessions |-> NoList]

\* The state of one run before anything ran, but for the inputs.
FreshRun ==
  /\ lines = <<>> /\ i = 0
  /\ url = None /\ custom_name = None /\ filename = None /\ f_path = None
  /\ valid_files = <<>> /\ failed_lines = <<>>
  /\ files = {} /\ empty_files = {}
  /\ batch_dir = None /\ zip_file = NoList /\ exc = "none"
  /\ ui = <<>> /\ progress = <<>> /\ failed_shown = NoList
  /\ calls = <<>> /\ outcome_of = <<>>
  /\ retr = "none" /\ tstat = "none"
  /\ written = <<>>

\* The state before anything ran, but for the inputs.
Fresh == FreshRun /\ SessionsIdle

Init ==
  /\ pc = "auth"
  /\ cookie_len \in CookieLens
  /\ raw_input \in RawInputs
  /\ arg = <<>> /\ res = <<>>
  /\ Fresh

\* ----------------------------------------------------- authentication
get_cookie_file_from_text(text_len) ==
  IF text_len = 0 \/ text_len < CookieMinLen THEN None ELSE CookieFile

\* A slip: the warning is shown but main() goes on.
Authenticate_NoReturn ==
  /\ pc = "auth"
  /\ pc' = "input"
  /\ ui' = IF get_cookie_file_from_text(cookie_len) = None
           THEN Append(ui, "auth_warning") ELSE ui
  /\ UNCHANGED <<sessvars, written, cookie_len, raw_input, lines, i, url, custom_name, filename, f_path,
                 valid_files, failed_lines, files, empty_files, batch_dir, zip_file,
                 exc, progress, failed_shown, calls, outcome_of, retr, tstat, arg, res>>

\* l.116-120: no cookie file, the warning and return.
Authenticate ==
  /\ pc = "auth"
  /\ IF get_cookie_file_from_text(cookie_len) = None
     THEN pc' = "auth_fail" /\ ui' = Append(ui, "auth_warning")
     ELSE pc' = "input" /\ ui' = ui
  /\ UNCHANGED <<sessvars, written, cookie_len, raw_input, lines, i, url, custom_name, filename, f_path,
                 valid_files, failed_lines, files, empty_files, batch_dir, zip_file,
                 exc, progress, failed_shown, calls, outcome_of, retr, tstat, arg, res>>

\* ------------------------------------------------------- "Download All"
\* A slip: the progress bar and the scratch directory come before the test.
ClickDownload_SetupFirst ==
  /\ pc = "input"
  /\ lines' = ParseLines(raw_input)
  /\ progress' = Append(progress, 0)
  /\ batch_dir' = BatchDir
  /\ IF lines' = <<>>
     THEN pc' = "nothing" /\ ui' = Append(ui, "no_links")
     ELSE pc' = "item" /\ ui' = ui
  /\ UNCHANGED <<sessvars, written, cookie_len, raw_input, i, url, custom_name, filename, f_path,
                 valid_files, failed_lines, files, empty_files, zip_file, exc,
                 failed_shown, calls, outcome_of, retr, tstat, arg, res>>

\* l.132-141: parse the lines; none: the warning; else the progress bar at 0,
\* the scratch directory and the two empty lists.
ClickDownload ==
  /\ pc = "input"
  /\ lines' = ParseLines(raw_input)
  /\ IF lines' = <<>>
     THEN /\ pc' = "nothing"
          /\ ui' = Append(ui, "no_links")
          /\ UNCHANGED <<progress, batch_dir>>
     ELSE /\ pc' = "item"
          /\ progress' = Append(progress, 0)
          /\ batch_dir' = BatchDir
          /\ ui' = ui
  /\ valid_files' = <<>>
  /\ failed_lines' = <<>>
  /\ UNCHANGED <<sessvars, written, cookie_len, raw_input, i, url, custom_name, filename, f_path,
                 files, empty_files, zip_file, exc, failed_shown, calls, outcome_of,
                 retr, tstat, arg, res>>

\* l.143-152: the next line's url and custom name, and the progress i/N.
BeginItem ==
  /\ pc = "item"
  /\ i < Len(lines)
  /\ LET item == ParseItem(lines[i + 1])
     IN url' = item.url /\ custom_name' = item.custom_name
  /\ progress' = Append(progress, i)
  /\ filename' = None /\ f_path' = None
  /\ retr' = "none" /\ tstat' = "none"
  /\ written' = Append(written, {})
  /\ pc' = "retrieve"
  /\ UNCHANGED <<sessvars, cookie_len, raw_input, lines, i, valid_files, failed_lines, files,
                 empty_files, batch_dir, zip_file, exc, ui, failed_shown, calls,
                 outcome_of, arg, res>>

\* ----------------------------------- download_single_video: the retrieval
\* The links the retrieval adapter knows: "h" and a one-letter reel id.
ValidURL(u) == Len(u) = 2 /\ u[1] = "h" /\ u[2] \notin Whitespace

\* info.get('id')
VideoId(u) == <<u[2]>>

\* ydl.prepare_filename(info): outtmpl '%(id)s.%(ext)s' in the scratch directory.
PreparedFilename(u) == JoinPath(batch_dir, VideoId(u) \o Mp4)

\* Path(output_dir).glob(f"*{video_id}*") over the files fs.
GlobId(fs, id) == {f \in fs : Parent(f) = batch_dir /\ Contains(Basename(f), id)}

\* The current item's pipeline wrote the path p (if did), else nothing.
ItemWrote(did, p) ==
  IF did THEN [written EXCEPT ![Len(written)] = @ \cup {p}] ELSE written

\* What every retrieval step leaves alone.
RetrieveFrame ==
  UNCHANGED <<sessvars, cookie_len, raw_input, lines, i, url, custom_name, valid_files,
              failed_lines, batch_dir, zip_file, exc, ui, progress, failed_shown,
              outcome_of, tstat, arg, res>>

\* A slip: no try/except around the adapter, the exception leaves main().
RetrieveRaises_Uncaught ==
  /\ pc = "retrieve"
  /\ calls' = Append(calls, i + 1)
  /\ retr' = "raised"
  /\ exc' = "DownloadError"
  /\ pc' = "crashed"
  /\ UNCHANGED <<sessvars, written, cookie_len, raw_input, lines, i, url, custom_name, valid_files,
                 failed_lines, batch_dir, zip_file, ui, progress, failed_shown,
                 outcome_of, tstat, arg, res, filename, f_path, files, empty_files>>

\* l.154, l.85-87, l.95-96: extract_info raises (any link: network error, login
\* refused, no such reel, not a link at all); download_single_video returns None.
RetrieveRaises ==
  /\ pc = "retrieve"
  /\ calls' = Append(calls, i + 1)
  /\ retr' = "raised"
  /\ f_path' = None
  /\ pc' = "record"
  /\ UNCHANGED <<filename, files, empty_files, written>>
  /\ RetrieveFrame

\* l.154, l.85-89: extract_info returns and the prepared file name exists. A file
\* that was there already is left as it is; a new one may be of size 0.
RetrieveDeclared ==
  /\ pc = "retrieve"
  /\ ValidURL(url)
  /\ calls' = Append(calls, i + 1)
  /\ LET f == PreparedFilename(url)
     IN /\ files' = files \cup {f}
        /\ written' = ItemWrote(f \notin files, f)
        /\ \E size \in {"data", "empty"} :
             empty_files' = IF f \notin files /\ size = "empty"
                            THEN empty_files \cup {f} ELSE empty_files
        /\ filename' = f
  /\ retr' = "declared"
  /\ pc' = "transcode"
  /\ UNCHANGED f_path
  /\ RetrieveFrame

\* The files after an extract_info that did not write the prepared file name:
\* it wrote the merged container instead, or nothing.
FilesElsewhere(wrote) ==
  IF wrote THEN files \cup {JoinPath(batch_dir, VideoId(url) \o Mkv)} ELSE files

\* l.89-92: the prepared file name does not exist, the glob finds a file.
RetrieveRecovered ==
  /\ pc = "retrieve"
  /\ ValidURL(url)
  /\ PreparedFilename(url) \notin files
  /\ calls' = Append(calls, i + 1)
  /\ \E wrote \in BOOLEAN :
       /\ files' = FilesElsewhere(wrote)
       /\ written' = ItemWrote(files' # files, JoinPath(batch_dir, VideoId(url) \o Mkv))
       /\ \E f \in GlobId(files', VideoId(url)) : filename' = f
  /\ retr' = "recovered"
  /\ pc' = "transcode"
  /\ UNCHANGED <<f_path, empty_files>>
  /\ RetrieveFrame

\* l.89-93: the prepared file name does not exist and the glob finds nothing.
RetrieveNotFound ==
  /\ pc = "retrieve"
  /\ ValidURL(url)
  /\ PreparedFilename(url) \notin files
  /\ GlobId(files, VideoId(url)) = {}
  /\ calls' = Append(calls, i + 1)
  /\ retr' = "notfound"
  /\ f_path' = None
  /\ pc' = "record"
  /\ UNCHANGED <<filename, files, empty_files, written>>
  /\ RetrieveFrame

\* ------------------------------------------------ convert_to_quicktime_mp4
\* l.44-50: the output path for input path p and custom name cn.
OutputPath(p, cn) ==
  JoinPath(Parent(p),
           IF cn # None /\ cn # <<>>
           THEN sanitize_filename(cn) \o Mp4
           ELSE Stem(p) \o MacSuffix \o Mp4)

\* What every transcode step leaves alone.
ConvertFrame ==
  UNCHANGED <<sessvars, cookie_len, raw_input, lines, i, url, custom_name, filename,
              valid_files, failed_lines, batch_dir, zip_file, exc, ui, progress,
              failed_shown, calls, outcome_of, retr, arg, res>>

\* A slip: the except branch returns None instead of the input path.
FfmpegRaises_ReturnsNone ==
  /\ pc = "transcode"
  /\ filename \in files
  /\ UNCHANGED <<files, empty_files, written>>
  /\ f_path' = None
  /\ tstat' = "raised"
  /\ pc' = "record"
  /\ ConvertFrame

\* l.52-64, l.70-72: ffmpeg.run raises; the input path is returned. ffmpeg may
\* have left the output untouched, truncated it, or written a part of it; it
\* refuses an output that is its input and leaves it untouched.
FfmpegRaises ==
  /\ pc = "transcode"
  /\ filename \in files
  /\ LET out == OutputPath(filename, custom_name)
     IN \E left \in {"untouched", "empty", "part"} :
          /\ out = filename => left = "untouched"
          /\ files' = IF left = "untouched" THEN files ELSE files \cup {out}
          /\ written' = ItemWrote(left # "untouched", out)
          /\ empty_files' = CASE left = "untouched" -> empty_files
                              [] left = "empty" -> empty_files \cup {out}
                              [] left = "part" -> empty_files \ {out}
  /\ f_path' = filename
  /\ tstat' = "raised"
  /\ pc' = "record"
  /\ ConvertFrame

\* A slip: the input is not deleted after a successful transcode.
FfmpegReturns_KeepInput ==
  /\ pc = "transcode"
  /\ filename \in files
  /\ LET out == OutputPath(filename, custom_name)
     IN /\ out # filename
        /\ \E wrote \in {"nothing", "empty", "data"} :
             /\ wrote = "nothing" => out \notin files
             /\ written' = ItemWrote(wrote # "nothing", out)
             /\ files' = IF wrote = "nothing" THEN files ELSE files \cup {out}
             /\ empty_files' = CASE wrote = "nothing" -> empty_files
                                 [] wrote = "empty" -> empty_files \cup {out}
                                 [] wrote = "data" -> empty_files \ {out}
             /\ IF wrote = "data"
                THEN f_path' = out /\ tstat' = "ok"
                ELSE /\ f_path' = filename
                     /\ tstat' = IF wrote = "nothing" THEN "no_output"
                                 ELSE "empty_output"
  /\ pc' = "record"
  /\ ConvertFrame

\* A slip: the input is deleted before the output is looked at.
FfmpegReturns_UnlinkFirst ==
  /\ pc = "transcode"
  /\ filename \in files
  /\ LET out == OutputPath(filename, custom_name)
     IN /\ out # filename
        /\ \E wrote \in {"nothing", "empty", "data"} :
             /\ wrote = "nothing" => out \notin files
             /\ written' = ItemWrote(wrote # "nothing", out)
             /\ LET fs == IF wrote = "nothing" THEN files ELSE files \cup {out}
                    em == CASE wrote = "nothing" -> empty_files
                            [] wrote = "empty" -> empty_files \cup {out}
                            [] wrote = "data" -> empty_files \ {out}
                IN /\ files' = fs \ {filename}
                   /\ empty_files' = em \ {filename}
                   /\ IF out \in fs /\ out \notin em
                      THEN f_path' = out /\ tstat' = "ok"
                      ELSE /\ f_path' = filename
                           /\ tstat' = IF wrote = "nothing" THEN "no_output"
                                       ELSE "empty_output"
  /\ pc' = "record"
  /\ ConvertFrame

\* l.52-69: ffmpeg.run returns. With overwrite_output it has opened the output,
\* so a file of that name that was there before is replaced; "nothing" is an
\* output that does not exist afterwards. An output that exists with a size
\* above 0: the input is deleted and the output path returned; else the input
\* path is returned.
FfmpegReturns ==
  /\ pc = "transcode"
  /\ filename \in files
  /\ LET out == OutputPath(filename, custom_name)
     IN /\ out # filename
        /\ \E wrote \in {"nothing", "empty", "data"} :
             /\ wrote = "nothing" => out \notin files
             /\ written' = ItemWrote(wrote # "nothing", out)
             /\ LET fs == IF wrote = "nothing" THEN files ELSE files \cup {out}
                    em == CASE wrote = "nothing" -> empty_files
                            [] wrote = "empty" -> empty_files \cup {out}
                            [] wrote = "data" -> empty_files \ {out}
                IN IF out \in fs /\ out \notin em
                   THEN /\ files' = fs \ {filename}
                        /\ empty_files' = em \ {filename}
                        /\ f_path' = out
                        /\ tstat' = "ok"
                   ELSE /\ files' = fs
                        /\ empty_files' = em
                        /\ f_path' = filename
                        /\ tstat' = IF wrote = "nothing" THEN "no_output"
                                    ELSE "empty_output"
  /\ pc' = "record"
  /\ ConvertFrame

\* l.41-42: the input path does not exist, None is returned.
ConvertInputMissing ==
  /\ pc = "transcode"
  /\ filename \notin files
  /\ f_path' = None
  /\ tstat' = "skipped"
  /\ pc' = "record"
  /\ UNCHANGED <<files, empty_files, written>>
  /\ ConvertFrame

\* l.94, l.40-72.
convert_to_quicktime_mp4 ==
  IF pc = "transcode" /\ filename \notin files
  THEN ConvertInputMissing
  ELSE FfmpegRaises \/ FfmpegReturns

\* ------------------------------------------------- recording the outcome
\* What recording leaves alone.
RecordFrame ==
  UNCHANGED <<sessvars, written, cookie_len, raw_input, lines, url, custom_name, filename, f_path,
              files, empty_files, batch_dir, zip_file, exc, failed_shown, calls,
              retr, tstat, arg, res>>

\* A slip: the progress (i+1)/N is emitted only for a success.
Record_ProgressOnSuccess ==
  /\ pc = "record"
  /\ IF f_path # None /\ f_path # <<>> /\ f_path \in files
     THEN /\ valid_files' = Append(valid_files, f_path)
          /\ outcome_of' = Append(outcome_of, "success")
          /\ ui' = Append(ui, "toast")
          /\ progress' = Append(progress, i + 1)
          /\ UNCHANGED failed_lines
     ELSE /\ failed_lines' = Append(failed_lines, url)
          /\ outcome_of' = Append(outcome_of, "failure")
          /\ UNCHANGED <<valid_files, ui, progress>>
  /\ i' = i + 1
  /\ pc' = IF i + 1 < Len(lines) THEN "item" ELSE "package"
  /\ RecordFrame

\* A slip: the new entry is put at the front of its list.
Record_Prepend ==
  /\ pc = "record"
  /\ IF f_path # None /\ f_path # <<>> /\ f_path \in files
     THEN /\ valid_files' = <<f_path>> \o valid_files
          /\ outcome_of' = Append(outcome_of, "success")
          /\ ui' = Append(ui, "toast")
          /\ UNCHANGED failed_lines
     ELSE /\ failed_lines' = <<url>> \o failed_lines
          /\ outcome_of' = Append(outcome_of, "failure")
          /\ UNCHANGED <<valid_files, ui>>
  /\ progress' = Append(progress, i + 1)
  /\ i' = i + 1
  /\ pc' = IF i + 1 < Len(lines) THEN "item" ELSE "package"
  /\ RecordFrame

\* A slip: the whole line is kept as the failed link, not its url part.
Record_AppendLine ==
  /\ pc = "record"
  /\ IF f_path # None /\ f_path # <<>> /\ f_path \in files
     THEN /\ valid_files' = Append(valid_files, f_path)
          /\ outcome_of' = Append(outcome_of, "success")
          /\ ui' = Append(ui, "toast")
          /\ UNCHANGED failed_lines
     ELSE /\ failed_lines' = Append(failed_lines, lines[i + 1])
          /\ outcome_of' = Append(outcome_of, "failure")
          /\ UNCHANGED <<valid_files, ui>>
  /\ progress' = Append(progress, i + 1)
  /\ i' = i + 1
  /\ pc' = IF i + 1 < Len(lines) THEN "item" ELSE "package"
  /\ RecordFrame

\* A slip: the else branch is missing, a failed link is not kept.
Record_NoElse ==
  /\ pc = "record"
  /\ IF f_path # None /\ f_path # <<>> /\ f_path \in files
     THEN /\ valid_files' = Append(valid_files, f_path)
          /\ outcome_of' = Append(outcome_of, "success")
          /\ ui' = Append(ui, "toast")
     ELSE /\ outcome_of' = Append(outcome_of, "failure")
          /\ UNCHANGED <<valid_files, ui>>
  /\ failed_lines' = failed_lines
  /\ progress' = Append(progress, i + 1)
  /\ i' = i + 1
  /\ pc' = IF i + 1 < Len(lines) THEN "item" ELSE "package"
  /\ RecordFrame

\* l.156-164: the path goes to valid_files if it is a path of an existing file,
\* else the url goes to failed_lines; then the progress (i+1)/N.
Record ==
  /\ pc = "record"
  /\ IF f_path # None /\ f_path # <<>> /\ f_path \in files
     THEN /\ valid_files' = Append(valid_files, f_path)
          /\ outcome_of' = Append(outcome_of, "success")
          /\ ui' = Append(ui, "toast")
          /\ UNCHANGED failed_lines
     ELSE /\ failed_lines' = Append(failed_lines, url)
          /\ outcome_of' = Append(outcome_of, "failure")
          /\ UNCHANGED <<valid_files, ui>>
  /\ progress' = Append(progress, i + 1)
  /\ i' = i + 1
  /\ pc' = IF i + 1 < Len(lines) THEN "item" ELSE "package"
  /\ RecordFrame

\* ------------------------------------------------------------ packaging
\* What packaging leaves alone.
PackageFrame ==
  UNCHANGED <<sessvars, written, cookie_len, raw_input, lines, i, url, custom_name, filename, f_path,
              valid_files, failed_lines, files, empty_files, batch_dir, progress,
              failed_shown, calls, outcome_of, retr, tstat, arg, res>>

\* The entry names zipf.write gives the paths ps.
ArcNames(ps) == [k \in 1..Len(ps) |-> Basename(ps[k])]

\* The paths of valid_files before the first one that does not exist.
Written ==
  LET missing == {k \in 1..Len(valid_files) : valid_files[k] \notin files}
  IN IF missing = {} THEN valid_files
     ELSE SubSeq(valid_files, 1,
                 (CHOOSE k \in missing : \A j \in missing : k <= j) - 1)

\* A slip: an empty archive is written and offered when nothing succeeded.
PackageSkip_EmptyArchive ==
  /\ pc = "package"
  /\ valid_files = <<>>
  /\ zip_file' = <<>>
  /\ ui' = ui \o <<"success", "download_button">>
  /\ pc' = "report"
  /\ UNCHANGED exc
  /\ PackageFrame

\* l.166: no valid file, nothing is packaged.
PackageSkip ==
  /\ pc = "package"
  /\ valid_files = <<>>
  /\ pc' = "report"
  /\ UNCHANGED <<zip_file, exc, ui>>
  /\ PackageFrame

\* l.166-184: the success message, one entry per valid file under its base
\* name, the download button.
PackageAll ==
  /\ pc = "package"
  /\ valid_files # <<>>
  /\ Written = valid_files
  /\ zip_file' = ArcNames(valid_files)
  /\ ui' = ui \o <<"success", "download_button">>
  /\ pc' = "report"
  /\ UNCHANGED exc
  /\ PackageFrame

\* l.174-176: a path of valid_files does not exist any more, zipf.write raises
\* FileNotFoundError and nothing catches it; the with statement closes the
\* archive with the entries written before.
PackageFileMissing ==
  /\ pc = "package"
  /\ valid_files # <<>>
  /\ Written # valid_files
  /\ zip_file' = ArcNames(Written)
  /\ ui' = Append(ui, "success")
  /\ exc' = "FileNotFoundError"
  /\ pc' = "crashed"
  /\ PackageFrame

\* l.174: the archive cannot be created (no space, no permission): ZipFile
\* raises OSError and nothing catches it.
PackageOSError ==
  /\ pc = "package"
  /\ valid_files # <<>>
  /\ ui' = Append(ui, "success")
  /\ exc' = "OSError"
  /\ pc' = "crashed"
  /\ UNCHANGED zip_file
  /\ PackageFrame

\* l.186-190: the failed links are listed, if there are any.
Report ==
  /\ pc = "report"
  /\ failed_shown' = failed_lines
  /\ ui' = IF failed_lines # <<>> THEN Append(ui, "failed_error") ELSE ui
  /\ pc' = "done"
  /\ UNCHANGED <<sessvars, written, cookie_len, raw_input, lines, i, url, custom_name, filename,
                 f_path, valid_files, failed_lines, files, empty_files, batch_dir,
                 zip_file, exc, progress, calls, outcome_of, retr, tstat, arg, res>>

\* ------------------------------------------------------ the specification
Next ==
  \/ Authenticate
  \/ ClickDownload
  \/ BeginItem
  \/ RetrieveRaises
  \/ RetrieveDeclared
  \/ RetrieveRecovered
  \/ RetrieveNotFound
  \/ convert_to_quicktime_mp4
  \/ Record
  \/ PackageSkip
  \/ PackageAll
  \/ PackageFileMissing
  \/ PackageOSError
  \/ Report

Spec == Init /\ [][Next]_vars

\* ------------------------------------------- the line parser on its own
\* Every line over ParseAlphabet, as the only line of the text.
InitParse ==
  /\ pc = "input"
  /\ cookie_len = CookieMinLen
  /\ raw_input \in {<<l>> : l \in StringsUpTo(ParseAlphabet, MaxLineLen)}
  /\ arg = <<>> /\ res = <<>>
  /\ Fresh

NextParse == ClickDownload \/ BeginItem

SpecParse == InitParse /\ [][NextParse]_vars

\* ---------------------------------------- sanitize_filename on its own
InitSanitize ==
  /\ pc = "sanitize"
  /\ cookie_len = CookieMinLen
  /\ raw_input = <<>>
  /\ arg \in StringsUpTo(SanAlphabet, MaxNameLen)
  /\ res = <<>>
  /\ Fresh

\* sanitize_filename applied to the name, then to its own result.
ApplySanitize ==
  /\ pc = "sanitize"
  /\ Len(res) < 2
  /\ res' = Append(res, sanitize_filename(IF res = <<>> THEN arg ELSE res[Len(res)]))
  /\ UNCHANGED <<sessvars, written, pc, cookie_len, raw_input, lines, i, url, custom_name, filename,
                 f_path, valid_files, failed_lines, files, empty_files, batch_dir,
                 zip_file, exc, ui, progress, failed_shown, calls, outcome_of, retr,
                 tstat, arg>>

SpecSanitize == InitSanitize /\ [][ApplySanitize]_vars

\* ------------------------- two sessions of the app packaging, l.166-184
\* The variables of one run of main().
runvars ==
  <<pc, cookie_len, raw_input, lines, i, url, custom_name, filename, f_path,
    valid_files, failed_lines, files, empty_files, batch_dir, zip_file, exc, ui,
    progress, failed_shown, calls, outcome_of, retr, tstat, arg, res, written>>

\* l.139: tempfile.mkdtemp() gives each session a scratch directory of its own.
RunDir(r) == IF r = 1 THEN <<"/", "t", "1">> ELSE <<"/", "t", "2">>

\* The files a session's loop may have recorded in its scratch directory.
RunFiles(r) ==
  {JoinPath(RunDir(r), <<"x">> \o MacSuffix \o Mp4),
   JoinPath(RunDir(r), <<"y">> \o MacSuffix \o Mp4)}

\* What a write into a hole of the archive file leaves before it.
Hole == <<"<hole>">>

\* The entries z of the archive file after an open ZipFile wrote the entry e at
\* its own position k; every handle keeps a position of its own.
WriteAt(z, k, e) ==
  [j \in 1..(IF Len(z) > k THEN Len(z) ELSE k) |->
     IF j = k THEN e ELSE IF j <= Len(z) THEN z[j] ELSE Hole]

\* Both sessions have ended their loops; the file at zip_path does not exist.
InitTwoRuns ==
  /\ pc = "sessions"
  /\ cookie_len = CookieMinLen
  /\ raw_input = <<>>
  /\ arg = <<>> /\ res = <<>>
  /\ FreshRun
  /\ run_valid \in [Sessions -> UNION {StringsUpTo(RunFiles(1), MaxItems),
                                       StringsUpTo(RunFiles(2), MaxItems)}]
  /\ \A r \in Sessions : \A k \in 1..Len(run_valid[r]) : run_valid[r][k] \in RunFiles(r)
  /\ run_pc = [r \in Sessions |-> "package"]
  /\ run_pos = [r \in Sessions |-> 0]
  /\ zip_path_file = NoList
  /\ run_data = [r \in Sessions |-> NoList]

\* l.166: valid_files is empty, nothing is packaged.
SessionSkip(r) ==
  /\ run_pc[r] = "package"
  /\ run_valid[r] = <<>>
  /\ run_pc' = [run_pc EXCEPT ![r] = "done"]
  /\ UNCHANGED <<run_valid, run_pos, zip_path_file, run_data, runvars>>

\* l.171, l.174: zipfile.ZipFile(zip_path, 'w') creates or truncates the file
\* at the fixed path in the system temp directory.
ZipOpen(r) ==
  /\ run_pc[r] = "package"
  /\ run_valid[r] # <<>>
  /\ zip_path_file' = <<>>
  /\ run_pos' = [run_pos EXCEPT ![r] = 0]
  /\ run_pc' = [run_pc EXCEPT ![r] = "writing"]
  /\ UNCHANGED <<run_valid, run_data, runvars>>

\* l.175-176: zipf.write(file, arcname=...) for the next path of valid_files.
ZipWrite(r) ==
  /\ run_pc[r] = "writing"
  /\ run_pos[r] < Len(run_valid[r])
  /\ zip_path_file' = WriteAt(zip_path_file, run_pos[r] + 1, run_valid[r][run_pos[r] + 1])
  /\ run_pos' = [run_pos EXCEPT ![r] = @ + 1]
  /\ UNCHANGED <<run_valid, run_pc, run_data, runvars>>

\* l.174-176: the with statement ends and closes the archive.
ZipClose(r) ==
  /\ run_pc[r] = "writing"
  /\ run_pos[r] = Len(run_valid[r])
  /\ run_pc' = [run_pc EXCEPT ![r] = "closed"]
  /\ UNCHANGED <<run_valid, run_pos, zip_path_file, run_data, runvars>>

\* l.178-184: open(zip_path, "rb") and st.download_button(data=f): the file at
\* the fixed path, as it is now, is what the session offers.
ZipRead(r) ==
  /\ run_pc[r] = "closed"
  /\ run_data' = [run_data EXCEPT ![r] = zip_path_file]
  /\ run_pc' = [run_pc EXCEPT ![r] = "done"]
  /\ UNCHANGED <<run_valid, run_pos, zip_path_file, runvars>>

NextTwoRuns ==
  \E r \in Sessions :
    \/ SessionSkip(r)
    \/ ZipOpen(r)
    \/ ZipWrite(r)
    \/ ZipClose(r)
    \/ ZipRead(r)

SpecTwoRuns == InitTwoRuns /\ [][NextTwoRuns]_vars

\* ---------------------------------------------------------------- claims
\* The number of raw lines that are not blank.
NonBlankCount ==
  Cardinality({k \in 1..Len(raw_input) : Strip(raw_input[k]) # <<>>})

\* The places of main() inside the loop, and after it.
InLoop == {"item", "retrieve", "transcode", "record"}
AfterLoop == {"package", "report", "done", "crashed"}

\* C1: after the loop has handled i items, len(valid_files) + len(failed_lines)
\* is i; when the loop has ended, both are the number of non-blank input lines.
C1_OutcomeCount ==
  /\ pc \in InLoop \cup AfterLoop => Len(valid_files) + Len(failed_lines) = i
  /\ pc \in AfterLoop => Len(valid_files) + Len(failed_lines) = NonBlankCount

C1_Witness ==
  /\ pc = "package"
  /\ NonBlankCount = 2
  /\ Len(valid_files) = 1
  /\ Len(failed_lines) = 1

\* C2: with no credential (get_cookie_file_from_text gives None) main() shows
\* the authentication warning and stops: download_single_video is never
\* called, no scratch directory is made, no line is parsed.
C2_NoCredentialNoBatch ==
  (cookie_len = 0 \/ cookie_len < CookieMinLen) =>
    /\ get_cookie_file_from_text(cookie_len) = None
    /\ pc \in {"auth", "auth_fail"}
    /\ calls = <<>>
    /\ batch_dir = None
    /\ lines = <<>> /\ url = None
    /\ pc = "auth_fail" => ui = <<"auth_warning">>

C2_Witness ==
  /\ pc = "auth_fail"
  /\ cookie_len = CookieMinLen - 1
  /\ NonBlankCount = 2

\* C3: an item whose retrieval gave a local file and whose transcode failed
\* (ffmpeg raised, or left no output or an empty one) is recorded in
\* valid_files under the path of the retrieved file, and failed_lines stays
\* as it is.
C3_DegradeNotDrop ==
  [][(/\ pc = "record"
      /\ pc' # "record"
      /\ retr \in {"declared", "recovered"}
      /\ tstat \in {"raised", "no_output", "empty_output"})
     => /\ valid_files' = Append(valid_files, filename)
        /\ failed_lines' = failed_lines
        /\ filename \in files']_vars

C3_Witness ==
  /\ pc \in {"item", "package"}
  /\ retr = "declared"
  /\ tstat = "raised"
  /\ valid_files # <<>>
  /\ valid_files[Len(valid_files)] = filename
  /\ failed_lines = <<>>

\* C4: a path that has just been appended to valid_files is the path of a
\* file of the scratch directory that exists and is not empty.
C4_RecordedFileNonEmpty ==
  (pc \in {"item", "package"} /\ i > 0 /\ outcome_of[i] = "success") =>
    LET p == valid_files[Len(valid_files)]
    IN p \in files /\ Parent(p) = batch_dir /\ p \notin empty_files

\* C5: download_single_video is called once for each item, in order, each
\* item gets one outcome, and nothing ends the loop before the last item: the
\* loop always has a next step, and main() is past it only with i = N.
C5_FailureIsolation ==
  /\ calls = [k \in 1..Len(calls) |-> k]
  /\ Len(outcome_of) = i
  /\ pc \in {"item", "retrieve"} => Len(calls) = i /\ i < Len(lines)
  /\ pc \in {"transcode", "record"} => Len(calls) = i + 1
  /\ pc \in AfterLoop => i = Len(lines) /\ Len(calls) = Len(lines)
  /\ pc \in InLoop => ENABLED Next

C5_Witness ==
  /\ pc = "package"
  /\ Len(lines) = 2
  /\ outcome_of = <<"failure", "success">>
  /\ calls = <<1, 2>>

\* C6: if valid_files is not empty when the loop has ended, the archive holds
\* one entry per path of valid_files, named by its base name (set aside the
\* run in which the archive could not be created at all).
C6_ArchiveHoldsEverySuccess ==
  (pc \in {"report", "done", "crashed"} /\ valid_files # <<>> /\ exc # "OSError") =>
    /\ zip_file # NoList
    /\ Len(zip_file) = Len(valid_files)
    /\ \A k \in 1..Len(valid_files) : zip_file[k] = Basename(valid_files[k])

\* C7: a run ends in one of three ways: the authentication warning; the
\* archive offered and the failed links reported; no archive and the failed
\* links reported. After the loop the failed links are reported, also when
\* the archive cannot be built. (Failed links count as reported when there
\* are none: the code then shows nothing.)
C7_ThreeEndings ==
  pc \in {"auth_fail", "nothing", "done", "crashed"} =>
    LET offered == \E k \in 1..Len(ui) : ui[k] = "download_button"
        reported == failed_lines = <<>> \/ failed_shown = failed_lines
    IN \/ pc = "auth_fail" /\ ui = <<"auth_warning">>
       \/ pc # "auth_fail" /\ offered /\ reported
       \/ pc # "auth_fail" /\ ~offered /\ reported

\* C8: with no non-blank line the click shows the "no links" warning and
\* nothing else happens: no scratch directory, no call of
\* download_single_video, no progress event, no archive.
C8_NothingToDo ==
  (NonBlankCount = 0 /\ pc \notin {"auth", "auth_fail", "input"}) =>
    /\ pc = "nothing"
    /\ ui = <<"no_links">>
    /\ batch_dir = None
    /\ calls = <<>>
    /\ progress = <<>>
    /\ zip_file = NoList
    /\ files = {}

C8_Witness ==
  /\ pc = "nothing"
  /\ Len(raw_input) = 2

\* Whether the separator stands at position k of s.
SepAt(s, k) == k + 2 <= Len(s) /\ s[k] = " " /\ s[k + 1] = "-" /\ s[k + 2] = " "

\* What the claim says of line s: split at the first separator, both parts
\* trimmed; without a separator the whole line, trimmed, and no custom name.
ParsedAs(s) ==
  IF \E k \in 1..Len(s) : SepAt(s, k)
  THEN \E k \in 1..Len(s) :
         /\ SepAt(s, k)
         /\ \A j \in 1..(k - 1) : ~SepAt(s, j)
         /\ url = Strip(SubSeq(s, 1, k - 1))
         /\ custom_name = Strip(SubSeq(s, k + 3, Len(s)))
  ELSE url = Strip(s) /\ custom_name = None

\* C9, as amended: the separator is looked for in the trimmed line. An item's
\* url is the trimmed text before the first separator of its trimmed line and
\* its custom name the trimmed text after it; a trimmed line without a
\* separator is the url, with no custom name.
C9_ParseTrimmedLine == pc = "retrieve" => ParsedAs(Strip(raw_input[i + 1]))

\* C9, as stated: the same of the raw line.
C9_ParseRawLine == pc = "retrieve" => ParsedAs(raw_input[i + 1])

C9_Witness ==
  /\ pc = "retrieve"
  /\ url = <<"h">>
  /\ custom_name = <<"h">> \o Separator \o <<"h">>

\* C10: sanitize_filename applied to its own result gives that result, and the
\* result holds none of the characters \ / * ? : " < > |.
C10_SanitizeIdempotent ==
  /\ Len(res) = 2 => res[2] = res[1]
  /\ \A r \in 1..Len(res) : \A k \in 1..Len(res[r]) :
       res[r][k] \notin {"\\", "/", "*", "?", ":", "\"", "<", ">", "|"}

C10_Witness ==
  /\ Len(res) = 2
  /\ Len(arg) = 3
  /\ arg[1] = "?" /\ arg[2] = " " /\ arg[3] = "n"
  /\ res[2] = <<"n">>

\* C11: the values given to the progress bar never decrease: 0 at the start,
\* i before item i+1 and i+1 after it, whatever its outcome; the value N is
\* given only when all N items have their outcome.
C11_ProgressMonotone ==
  /\ \A a \in 1..Len(progress) : \A b \in a..Len(progress) : progress[a] <= progress[b]
  /\ pc \in InLoop \cup AfterLoop =>
       /\ Len(progress) = 1 + 2 * i + (IF pc \in {"retrieve", "transcode", "record"} THEN 1 ELSE 0)
       /\ progress[1] = 0
       /\ \A k \in 1..i : progress[2 * k] = k - 1 /\ progress[2 * k + 1] = k
       /\ progress[Len(progress)] = i
  /\ \A m \in 1..Len(progress) :
       (lines # <<>> /\ progress[m] = Len(lines)) => Len(outcome_of) = Len(lines)

C11_Witness ==
  /\ pc = "package"
  /\ outcome_of = <<"failure", "success">>
  /\ progress = <<0, 0, 1, 1, 2>>

\* C12: valid_files and failed_lines are in input order: an entry is only
\* ever added at the end of one of them, when the outcome of item i+1 is
\* recorded, and items are taken one by one in the order of the lines; the
\* download of item i+1 starts only when i outcomes have been recorded.
C12_ReportOrdering ==
  /\ [](pc \in {"retrieve", "transcode", "record"} =>
          /\ Len(outcome_of) = i
          /\ Len(valid_files) + Len(failed_lines) = i
          /\ Len(calls) \in {i, i + 1}
          /\ ParsedAs(lines[i + 1]))
  /\ [][\/ (valid_files' = valid_files /\ failed_lines' = failed_lines)
        \/ /\ pc = "record" /\ i' = i + 1
           /\ \/ valid_files' = Append(valid_files, f_path) /\ failed_lines' = failed_lines
              \/ failed_lines' = Append(failed_lines, url) /\ valid_files' = valid_files]_vars

C12_Witness ==
  /\ pc = "package"
  /\ raw_input = <<<<"h", "x">>, <<"h", "y">>>>
  /\ valid_files = <<JoinPath(BatchDir, <<"x">> \o MacSuffix \o Mp4),
                     JoinPath(BatchDir, <<"y">> \o MacSuffix \o Mp4)>>

C15_FailureIffRetrievalFailed ==
  [][(pc = "record" /\ pc' # "record") =>
       /\ ParsedAs(lines[i + 1])
       /\ retr \in {"raised", "notfound", "declared", "recovered"}
       /\ IF retr \in {"raised", "notfound"}
          THEN failed_lines' = Append(failed_lines, url) /\ valid_files' = valid_files
          ELSE failed_lines' = failed_lines]_vars

C15_Witness ==
  /\ pc \in {"item", "package"}
  /\ lines[1] = <<"h", "x">> \o Separator \o <<"y">>
  /\ retr = "notfound"
  /\ failed_lines = <<<<"h", "x">>>>

\* C16: the packaging step runs if and only if valid_files is not empty when
\* the loop has ended; when every item failed no archive is written or
\* offered and only the failed links are reported.
C16_PackagingIffSuccess ==
  pc \in {"report", "done", "crashed"} =>
    LET ran == \E k \in 1..Len(ui) : ui[k] = "success"
        offered == \E k \in 1..Len(ui) : ui[k] = "download_button"
    IN /\ ran <=> valid_files # <<>>
       /\ valid_files = <<>> =>
            /\ zip_file = NoList
            /\ ~offered
            /\ exc = "none"
            /\ Len(failed_lines) = Len(lines)
            /\ pc = "done" => failed_shown = failed_lines /\ ui = <<"failed_error">>

C16_Witness ==
  /\ pc = "done"
  /\ valid_files = <<>>
  /\ Len(failed_lines) = 2

\* C17: every path of valid_files still exists while later items are
\* processed and when the archive is built.
C17_RecordedFilesStay ==
  pc \in InLoop \cup {"package"} =>
    \A k \in 1..Len(valid_files) : valid_files[k] \in files


\* C13. Filename ownership: for any two distinct items of one batch, no path
\* that the pipeline of one item wrote in the scratch directory (the retrieved
\* file, the transcoded file) is a path the pipeline of the other item wrote.
C13_FilenameOwnership ==
  \A j \in 1..Len(written) : \A k \in 1..Len(written) :
    j # k => written[j] \cap written[k] = {}

\* C18. When the prepared file name does not exist and the recovery search
\* picks a file whose name contains the reported id, that file was written by
\* the retrieval of the current item, never by the pipeline of another item.
C18_RecoveryPicksOwnFile ==
  (pc = "transcode" /\ retr = "recovered") => filename \in written[i + 1]


\* C19. Two sessions that run at the same time do not interfere: each has a
\* scratch directory of its own, and the archive a session offers holds exactly
\* the files that session recorded, in order, although both sessions write the
\* archive to the same fixed path.
C19_RunsDoNotInterfere ==
  /\ \A r \in Sessions : \A q \in Sessions : r # q => RunDir(r) # RunDir(q)
  /\ \A r \in Sessions :
       (run_pc[r] = "done" /\ run_valid[r] # <<>>) => run_data[r] = run_valid[r]

====
